---------------------------- MODULE Spec2Model ----------------------------
(***************************************************************************)
(* A model of pytorch_tools/modules/residual.py.                           *)
(*                                                                         *)
(* A tensor is modelled by its shape <<N, C, H, W>>; a failed call by the  *)
(* empty shape <<>>.  Layers are records carrying the channel counts and   *)
(* the kernel geometry they were constructed with; a block is a record of  *)
(* its layers and flags; a forward pass folds the block's step list over   *)
(* the input shape and records the order of the operations it ran.         *)
(* DropConnect is additionally modelled on tensor values (exact rationals  *)
(* with inf/nan), because its contract is about values.                    *)
(***************************************************************************)
EXTENDS Integers, Sequences, FiniteSets, TLC

VARIABLES
    blk,        \* the object last constructed (or the construction error)
    training,   \* nn.Module.training of that object
    res         \* the record of the last call made

vars == <<blk, training, res>>

----------------------------------------------------------------------------
(* Bounds of the model *)

MaxNameLen == 4     \* attention names of up to MaxNameLen letters
KDen == 2           \* keep_prob and torch.rand are multiples of 1/KDen
MaxCh == 8          \* CrossStage out_chs 1..MaxCh
MaxBlocks == 3      \* num_blocks 0..MaxBlocks

----------------------------------------------------------------------------
(* Python values *)

\* None, as an attn_type argument (a one-element tuple no string equals)
NoneArg == <<"None">>

Alphabet == {"s", "S", "e", "E", "c", "C", "a", "A", "x"}

\* str.lower() on one character
LowerChar(c) ==
    CASE c = "S" -> "s"
      [] c = "E" -> "e"
      [] c = "C" -> "c"
      [] c = "A" -> "a"
      [] OTHER -> c

\* str.lower()
Lower(s) == [i \in DOMAIN s |-> LowerChar(s[i])]

Strings(n) == UNION {[1..k -> Alphabet] : k \in 0..n}

Max(a, b) == IF a >= b THEN a ELSE b

\* int(num/den * c) for a non-negative ratio num/den: truncation
IntMul(ratio, c) == (ratio[1] * c) \div ratio[2]

----------------------------------------------------------------------------
(* Layers.  Every layer record has the same fields; a field a layer does   *)
(* not use is 0 or "".                                                      *)

Layer(op, cin, cout, k, s, p, d, g, act) ==
    [op |-> op, cin |-> cin, cout |-> cout, k |-> k, s |-> s, p |-> p,
     d |-> d, g |-> g, act |-> act]

Conv2d(cin, cout, k, s, p, d, g) == Layer("conv", cin, cout, k, s, p, d, g, "")

conv3x3_nopad(in_planes, out_planes, stride, groups, dilation) ==
    Conv2d(in_planes, out_planes, 3, stride, 0, dilation, groups)

conv3x3(in_planes, out_planes, stride, groups, dilation) ==
    Conv2d(in_planes, out_planes, 3, stride, dilation, dilation, groups)

conv1x1(in_planes, out_planes, stride) ==
    Conv2d(in_planes, out_planes, 1, stride, 0, 1, 1)

\* norm_layer(channels, activation=act)
Norm(ch, act) == Layer("norm", ch, ch, 0, 1, 0, 1, 1, act)

\* activation_from_name(name), nn.ReLU
Act(name) == Layer("act", 0, 0, 0, 1, 0, 1, 1, name)

Identity == Layer("Identity", 0, 0, 0, 1, 0, 1, 1, "")

\* BlurPool(channels): the low-pass filter that carries the stride 2
BlurPool(ch) == Layer("blur", ch, ch, 3, 2, 1, 1, ch, "")

\* The tensor engine's construction-time validation of a convolution
ConvAccepted(m) ==
    /\ m.g >= 1
    /\ m.cin % m.g = 0
    /\ m.cout % m.g = 0

----------------------------------------------------------------------------
(* Shapes *)

Fail == <<>>

IsShape(sh) == Len(sh) = 4

\* floor((h + 2p - d(k-1) - 1) / s) + 1
ConvOut(h, m) == ((h + 2 * m.p - m.d * (m.k - 1) - 1) \div m.s) + 1

\* x + y with broadcasting
BroadcastDim(a, b) == IF a = b THEN a ELSE IF a = 1 THEN b ELSE IF b = 1 THEN a ELSE 0

Add(a, b) ==
    IF ~IsShape(a) \/ ~IsShape(b) THEN Fail
    ELSE IF \E i \in 1..4 : BroadcastDim(a[i], b[i]) = 0 THEN Fail
    ELSE <<BroadcastDim(a[1], b[1]), BroadcastDim(a[2], b[2]),
           BroadcastDim(a[3], b[3]), BroadcastDim(a[4], b[4])>>

\* torch.chunk(x, chunks, dim=1): the channel counts of the parts returned
Chunk(c, chunks) ==
    LET size == (c + chunks - 1) \div chunks
        n == (c + size - 1) \div size
    IN  [i \in 1..n |-> IF i < n THEN size ELSE c - size * (n - 1)]

----------------------------------------------------------------------------
(* Attention sub-modules *)

SEModule(channels, reduction_channels) ==
    Layer("SEModule", channels, reduction_channels, 1, 1, 0, 1, 1, "")

ECAModule == Layer("ECAModule", 0, 0, 3, 1, 1, 1, 1, "")

SSEModule(in_ch) == Layer("SSEModule", in_ch, 1, 1, 1, 0, 1, 1, "")

SCSEModule(in_ch) == Layer("SCSEModule", in_ch, in_ch, 1, 1, 0, 1, 1, "")

se == <<"s", "e">>
eca == <<"e", "c", "a">>
sse == <<"s", "s", "e">>
scse == <<"s", "c", "s", "e">>

ATT_TO_MODULE ==
    [n \in {se, eca, sse, scse} |->
        CASE n = se -> "SEModule"
          [] n = eca -> "ECAModule"
          [] n = sse -> "SSEModule"
          [] n = scse -> "SCSEModule"]

get_attn_nolower(attn_type) ==
    IF attn_type = NoneArg THEN "Identity"
    ELSE IF attn_type \in DOMAIN ATT_TO_MODULE
         THEN ATT_TO_MODULE[attn_type]
         ELSE "KeyError"

\* The class get_attn returns, or "KeyError" when the lookup raises
get_attn(attn_type) ==
    IF attn_type = NoneArg THEN "Identity"
    ELSE IF Lower(attn_type) \in DOMAIN ATT_TO_MODULE
         THEN ATT_TO_MODULE[Lower(attn_type)]
         ELSE "KeyError"

\* get_attn(attn_type)(a, b): the instance the returned class constructs
MkAttn(class, a, b) ==
    CASE class = "SEModule" -> SEModule(a, b)
      [] class = "ECAModule" -> ECAModule
      [] class = "SSEModule" -> SSEModule(a)
      [] class = "SCSEModule" -> SCSEModule(a)
      [] OTHER -> Identity

\* DropConnect(keep_prob) if keep_prob < 1 else nn.Identity(); keep_prob = kp / KDen
MkDropConnect(kp) ==
    IF kp < KDen THEN Layer("DropConnect", 0, 0, 0, 1, 0, 1, 1, "") ELSE Identity

----------------------------------------------------------------------------
(* The forward pass of one layer on a shape *)

ApplyLayer(m, sh) ==
    IF ~IsShape(sh) THEN Fail
    ELSE CASE m.op \in {"conv", "blur"} ->
                IF sh[2] # m.cin \/ ConvOut(sh[3], m) < 1 \/ ConvOut(sh[4], m) < 1
                THEN Fail
                ELSE <<sh[1], m.cout, ConvOut(sh[3], m), ConvOut(sh[4], m)>>
           [] m.op = "norm" -> IF sh[2] # m.cin THEN Fail ELSE sh
           \* pool -> fc1 -> act1 -> fc2, then x * gate (broadcast)
           [] m.op = "SEModule" ->
                IF sh[2] # m.cin THEN Fail ELSE Add(sh, <<sh[1], m.cin, 1, 1>>)
           \* pool -> Conv1d over the channel axis -> x * gate.expand_as(x)
           [] m.op = "ECAModule" -> sh
           [] m.op = "SSEModule" ->
                IF sh[2] # m.cin THEN Fail ELSE Add(sh, <<sh[1], 1, sh[3], sh[4]>>)
           \* reduction_conv(cat([sse(x), cse(x)], dim=1))
           [] m.op = "SCSEModule" ->
                IF sh[2] # m.cin THEN Fail ELSE <<sh[1], m.cout, sh[3], sh[4]>>
           [] OTHER -> sh

----------------------------------------------------------------------------
(* Blocks.  A constructor takes the record of its arguments and returns    *)
(* the block, or the record of the error its __init__ raises.              *)

Raised(cls, a, err) == [cls |-> cls, err |-> err, args |-> a]

Step(m) == [m |-> m, src |-> "out"]
StepX(m) == [m |-> m, src |-> "x"]

Opt(cond, steps) == IF cond THEN steps ELSE <<>>

\* the first layer of a list the tensor engine rejects at construction
EngineRejects(convs) == \E i \in DOMAIN convs : ~ConvAccepted(convs[i])

\* the projection shortcut a caller passes as downsample (None when absent)
MkDownsample(given, inplanes, outplanes, stride) ==
    IF given THEN conv1x1(inplanes, outplanes, stride) ELSE Identity

(* ---- InvertedResidual ---- *)

\* make_divisible(v) of pytorch_tools.utils.misc: round to a multiple of 8
make_divisible(num, den) ==
    LET new_v == Max(8, (((num + 4 * den) \div den) \div 8) * 8)
    IN  IF 10 * new_v * den < 9 * num THEN new_v + 8 ELSE new_v

InvertedResidual_has_residual_nostride(in_channels, out_channels, stride, noskip) ==
    in_channels = out_channels /\ ~noskip

InvertedResidual_has_residual(in_channels, out_channels, stride, noskip) ==
    (in_channels = out_channels /\ stride = 1) /\ ~noskip

\* a: in_channels, out_channels, dw_kernel_size, stride, dilation, attn_type,
\*    expand_ratio (<<num, den>>), keep_prob, noskip
InvertedResidual(a) ==
    LET mid_chs == make_divisible(a.in_channels * a.expand_ratio[1], a.expand_ratio[2])
        has_expansion == a.expand_ratio[1] # a.expand_ratio[2]
        conv_pw == conv1x1(a.in_channels, mid_chs, 1)
        conv_dw == Conv2d(mid_chs, mid_chs, a.dw_kernel_size, a.stride,
                          (a.dilation * (a.dw_kernel_size - 1)) \div 2, a.dilation, mid_chs)
        conv_pw1 == conv1x1(mid_chs, a.out_channels, 1)
        attn == get_attn(a.attn_type)
    IN  IF EngineRejects(<<conv_dw>>) THEN Raised("InvertedResidual", a, "EngineError")
        ELSE IF attn = "KeyError" THEN Raised("InvertedResidual", a, "KeyError")
        ELSE [cls |-> "InvertedResidual", err |-> "", args |-> a,
              has_residual |-> InvertedResidual_has_residual(
                                   a.in_channels, a.out_channels, a.stride, a.noskip),
              has_expansion |-> has_expansion,
              antialias |-> FALSE,
              keep_prob |-> a.keep_prob,
              mods |-> [conv_pw |-> IF has_expansion THEN conv_pw ELSE Identity,
                        bn1 |-> IF has_expansion THEN Norm(mid_chs, "relu") ELSE Identity,
                        conv_dw |-> conv_dw,
                        bn2 |-> Norm(mid_chs, "relu"),
                        se |-> MkAttn(attn, mid_chs, a.in_channels \div 4),
                        conv_pw1 |-> conv_pw1,
                        bn3 |-> Norm(a.out_channels, "identity"),
                        drop_connect |-> MkDropConnect(a.keep_prob)]]

InvertedResidual_forward(b) ==
    Opt(b.has_expansion, <<Step("conv_pw"), Step("bn1")>>)
    \o <<Step("conv_dw"), Step("bn2"), Step("se"), Step("conv_pw1"), Step("bn3")>>
    \o Opt(b.has_residual, <<Step("drop_connect"), Step("add")>>)

(* ---- BasicBlock, Bottleneck and their TResNet variants ---- *)

\* a: inplanes, planes, stride, downsample (given or None), groups, base_width,
\*    attn_type, dilation, antialias, keep_prob
BasicBlock_cls(cls, a) ==
    LET antialias == a.antialias /\ a.stride = 2
        outplanes == a.planes * 1
        conv1_stride == IF antialias THEN 1 ELSE a.stride
        conv1 == conv3x3(a.inplanes, a.planes, conv1_stride, a.groups, a.dilation)
        conv2 == conv3x3(a.planes, outplanes, 1, 1, 1)
        attn == get_attn(a.attn_type)
    IN  IF a.groups # 1 \/ a.base_width # 64 THEN Raised(cls, a, "AssertionError")
        ELSE IF EngineRejects(<<conv1, conv2>>) THEN Raised(cls, a, "EngineError")
        ELSE IF attn = "KeyError" THEN Raised(cls, a, "KeyError")
        ELSE [cls |-> cls, err |-> "", args |-> a,
              has_downsample |-> a.downsample,
              antialias |-> antialias,
              keep_prob |-> a.keep_prob,
              mods |-> [conv1 |-> conv1,
                        bn1 |-> Norm(a.planes, "relu"),
                        conv2 |-> conv2,
                        bn2 |-> Norm(outplanes, "identity"),
                        se_module |-> MkAttn(attn, outplanes, a.planes \div 4),
                        final_act |-> Act("relu"),
                        downsample |-> MkDownsample(a.downsample, a.inplanes,
                                                    outplanes, a.stride),
                        blurpool |-> IF antialias THEN BlurPool(a.planes) ELSE Identity,
                        drop_connect |-> MkDropConnect(a.keep_prob)]]

BasicBlock(a) == BasicBlock_cls("BasicBlock", a)

BasicBlock_forward(b) ==
    Opt(b.has_downsample, <<StepX("downsample")>>)
    \o <<Step("conv1"), Step("bn1")>>
    \o Opt(b.antialias, <<Step("blurpool")>>)
    \o <<Step("conv2"), Step("bn2"), Step("se_module"), Step("drop_connect"),
         Step("add"), Step("final_act")>>

Bottleneck_cls(cls, a) ==
    LET antialias == a.antialias /\ a.stride = 2
        width == ((a.planes * a.base_width) \div 64) * a.groups
        outplanes == a.planes * 4
        conv1 == conv1x1(a.inplanes, width, 1)
        conv2_stride == IF antialias THEN 1 ELSE a.stride
        conv2 == conv3x3(width, width, conv2_stride, a.groups, a.dilation)
        conv3 == conv1x1(width, outplanes, 1)
        attn == get_attn(a.attn_type)
    IN  IF EngineRejects(<<conv1, conv2, conv3>>) THEN Raised(cls, a, "EngineError")
        ELSE IF attn = "KeyError" THEN Raised(cls, a, "KeyError")
        ELSE [cls |-> cls, err |-> "", args |-> a,
              has_downsample |-> a.downsample,
              antialias |-> antialias,
              keep_prob |-> a.keep_prob,
              mods |-> [conv1 |-> conv1,
                        bn1 |-> Norm(width, "relu"),
                        conv2 |-> conv2,
                        bn2 |-> Norm(width, "relu"),
                        conv3 |-> conv3,
                        bn3 |-> Norm(outplanes, "identity"),
                        se_module |-> MkAttn(attn, outplanes, a.planes \div 4),
                        final_act |-> Act("relu"),
                        downsample |-> MkDownsample(a.downsample, a.inplanes,
                                                    outplanes, a.stride),
                        blurpool |-> IF antialias THEN BlurPool(width) ELSE Identity,
                        drop_connect |-> MkDropConnect(a.keep_prob)]]

Bottleneck(a) == Bottleneck_cls("Bottleneck", a)

Bottleneck_forward(b) ==
    Opt(b.has_downsample, <<StepX("downsample")>>)
    \o <<Step("conv1"), Step("bn1"), Step("conv2"), Step("bn2")>>
    \o Opt(b.antialias, <<Step("blurpool")>>)
    \o <<Step("conv3"), Step("bn3"), Step("se_module"), Step("drop_connect"),
         Step("add"), Step("final_act")>>

\* kwargs.get("attn_type") == "se" is an exact comparison
TBasicBlock(a) ==
    LET b == BasicBlock_cls("TBasicBlock", a)
    IN  IF b.err # "" \/ a.attn_type # se THEN b
        ELSE [b EXCEPT !.mods.se_module = SEModule(a.planes, Max(a.planes \div 4, 64))]

TBottleneck(a) ==
    LET b == Bottleneck_cls("TBottleneck", a)
    IN  IF b.err # "" \/ a.attn_type # se THEN b
        ELSE [b EXCEPT !.mods.se_module =
                          SEModule(a.planes, Max((a.planes * 4) \div 8, 64))]

TBottleneck_forward_se_last(b) ==
    Opt(b.has_downsample, <<StepX("downsample")>>)
    \o <<Step("conv1"), Step("bn1"), Step("conv2"), Step("bn2")>>
    \o Opt(b.antialias, <<Step("blurpool")>>)
    \o <<Step("conv3"), Step("bn3"), Step("se_module"), Step("drop_connect"),
         Step("add"), Step("final_act")>>

\* se after the 2nd conv instead of the 3rd
TBottleneck_forward(b) ==
    Opt(b.has_downsample, <<StepX("downsample")>>)
    \o <<Step("conv1"), Step("bn1"), Step("conv2"), Step("bn2")>>
    \o Opt(b.antialias, <<Step("blurpool")>>)
    \o <<Step("se_module"), Step("conv3"), Step("bn3"), Step("drop_connect"),
         Step("add"), Step("final_act")>>

(* ---- DarkNet blocks ---- *)

\* a: in_channels, out_channels, bottle_ratio (<<num, den>>), attn_type, keep_prob
DarkBasicBlock(a) ==
    LET mid_channels == IntMul(a.bottle_ratio, a.in_channels)
        conv1 == conv1x1(a.in_channels, mid_channels, 1)
        conv2 == conv3x3(mid_channels, a.out_channels, 1, 32, 1)
        attn == get_attn(a.attn_type)
    IN  IF EngineRejects(<<conv1, conv2>>) THEN Raised("DarkBasicBlock", a, "EngineError")
        ELSE IF attn = "KeyError" THEN Raised("DarkBasicBlock", a, "KeyError")
        ELSE [cls |-> "DarkBasicBlock", err |-> "", args |-> a,
              antialias |-> FALSE,
              keep_prob |-> a.keep_prob,
              mods |-> [bn1 |-> Norm(mid_channels, "leaky_relu"),
                        conv1 |-> conv1,
                        bn2 |-> Norm(a.out_channels, "leaky_relu"),
                        conv2 |-> conv2,
                        attention |-> MkAttn(attn, a.out_channels, a.out_channels \div 4),
                        drop_connect |-> MkDropConnect(a.keep_prob)]]

\* out = bn1(x); out = conv1(x): the convolution reads x, not bn1's output
DarkBasicBlock_forward(b) ==
    <<StepX("bn1"), StepX("conv1"), Step("bn2"), Step("conv2"), Step("attention"),
      Step("drop_connect"), Step("add")>>

\* a: in_channels, out_channels, attn_type, keep_prob.  The first statement
\* after super().__init__() reads bottle_ratio, a name the scope does not bind.
CSPDarkBasicBlock(a) == Raised("CSPDarkBasicBlock", a, "NameError")

(* ---- Simple bottlenecks ---- *)

SimpleBottleneck_has_residual_nostride(in_chs, out_chs, stride) == in_chs = out_chs

SimpleBottleneck_has_residual(in_chs, out_chs, stride) == in_chs = out_chs /\ stride = 1

\* a: in_chs, mid_chs, out_chs, stride, groups, groups_width (0 for None)
SimpleBottleneck(a) ==
    LET groups == IF a.groups_width # 0 THEN a.mid_chs \div a.groups_width ELSE a.groups
        conv1 == conv1x1(a.in_chs, a.mid_chs, 1)
        conv2 == conv3x3(a.mid_chs, a.mid_chs, a.stride, groups, 1)
        conv3 == conv1x1(a.mid_chs, a.out_chs, 1)
    IN  IF EngineRejects(<<conv1, conv2, conv3>>)
        THEN Raised("SimpleBottleneck", a, "EngineError")
        ELSE [cls |-> "SimpleBottleneck", err |-> "", args |-> a,
              has_residual |-> SimpleBottleneck_has_residual(a.in_chs, a.out_chs, a.stride),
              antialias |-> FALSE,
              mods |-> [conv1 |-> conv1,
                        bn1 |-> Norm(a.mid_chs, "relu"),
                        conv2 |-> conv2,
                        bn2 |-> Norm(a.mid_chs, "relu"),
                        conv3 |-> conv3,
                        bn3 |-> Norm(a.out_chs, "identity")]]

SimpleBottleneck_forward(b) ==
    <<Step("conv1"), Step("bn1"), Step("conv2"), Step("bn2"), Step("conv3"), Step("bn3")>>
    \o Opt(b.has_residual, <<Step("add")>>)

SimplePreActBottleneck(a) ==
    LET groups == IF a.groups_width # 0 THEN a.mid_chs \div a.groups_width ELSE a.groups
        conv1 == conv1x1(a.in_chs, a.mid_chs, 1)
        conv2 == conv3x3(a.mid_chs, a.mid_chs, a.stride, groups, 1)
        conv3 == conv1x1(a.mid_chs, a.out_chs, 1)
    IN  IF EngineRejects(<<conv1, conv2, conv3>>)
        THEN Raised("SimplePreActBottleneck", a, "EngineError")
        ELSE [cls |-> "SimplePreActBottleneck", err |-> "", args |-> a,
              has_residual |-> a.in_chs = a.out_chs /\ a.stride = 1,
              antialias |-> FALSE,
              mods |-> [bn1 |-> Norm(a.in_chs, "relu"),
                        conv1 |-> conv1,
                        bn2 |-> Norm(a.mid_chs, "relu"),
                        conv2 |-> conv2,
                        bn3 |-> Norm(a.mid_chs, "relu"),
                        conv3 |-> conv3]]

SimplePreActBottleneck_forward(b) ==
    <<Step("bn1"), Step("conv1"), Step("bn2"), Step("conv2"), Step("bn3"), Step("conv3")>>
    \o Opt(b.has_residual, <<Step("add")>>)

----------------------------------------------------------------------------
(* The forward pass of a block *)

Steps(b) ==
    CASE b.cls = "InvertedResidual" -> InvertedResidual_forward(b)
      [] b.cls \in {"BasicBlock", "TBasicBlock"} -> BasicBlock_forward(b)
      [] b.cls = "Bottleneck" -> Bottleneck_forward(b)
      [] b.cls = "TBottleneck" -> TBottleneck_forward(b)
      [] b.cls = "DarkBasicBlock" -> DarkBasicBlock_forward(b)
      [] b.cls = "SimpleBottleneck" -> SimpleBottleneck_forward(b)
      [] b.cls = "SimplePreActBottleneck" -> SimplePreActBottleneck_forward(b)

\* The running state of a forward pass: the current tensor, the residual
\* operand, the operations run so far, and the operation that raised.
Start(x) == [out |-> x, residual |-> x, ops |-> <<>>, fail |-> "", fed |-> 0]

RunStep(b, x, s, st) ==
    IF st.fail # "" THEN st
    ELSE LET r == CASE s.m = "add" -> Add(st.out, st.residual)
                    [] OTHER -> ApplyLayer(b.mods[s.m], IF s.src = "x" THEN x ELSE st.out)
         IN  IF ~IsShape(r) THEN [st EXCEPT !.fail = s.m, !.out = Fail]
             ELSE IF s.m = "downsample"
                  THEN [st EXCEPT !.residual = r, !.ops = Append(@, s.m)]
                  ELSE [st EXCEPT !.out = r, !.ops = Append(@, s.m)]

\* the steps in order; each intermediate state is bound to a value before
\* the next step reads it
RECURSIVE RunSteps(_, _, _, _)
RunSteps(b, x, steps, st) ==
    IF steps = <<>> THEN st
    ELSE CHOOSE r \in {RunSteps(b, x, Tail(steps), t) :
                          t \in {RunStep(b, x, Head(steps), st)}} : TRUE

BlockForward(b, x) == RunSteps(b, x, Steps(b), Start(x))

\* nn.Sequential of blocks
RECURSIVE SequentialForward(_, _)
SequentialForward(blocks, st) ==
    IF blocks = <<>> \/ st.fail # "" THEN st
    ELSE CHOOSE v \in {SequentialForward(Tail(blocks), t) :
            t \in {[st EXCEPT !.out = r.out,
                              !.fail = r.fail,
                              !.ops = IF r.fail = "" THEN Append(@, Head(blocks).cls) ELSE @] :
                      r \in {BlockForward(Head(blocks), st.out)}}} : TRUE

----------------------------------------------------------------------------
(* Stages *)

\* block_fn(in_chs=.., mid_chs=.., out_chs=.., stride=.., norm_layer=.., norm_act=..):
\* DarkBasicBlock.__init__ has no parameter of these names
CallBlockFn(block_fn, in_chs, mid_chs, out_chs, stride) ==
    LET kw == [in_chs |-> in_chs, mid_chs |-> mid_chs, out_chs |-> out_chs,
               stride |-> stride, groups |-> 1, groups_width |-> 0]
    IN  CASE block_fn = "SimpleBottleneck" -> SimpleBottleneck(kw)
          [] block_fn = "SimplePreActBottleneck" -> SimplePreActBottleneck(kw)
          [] OTHER -> Raised(block_fn, kw, "TypeError")

\* len(range(n))
RangeLen(n) == Max(n, 0)

SimpleStage_rest_offbyone(num_blocks) == RangeLen(num_blocks)

\* the number of blocks the list comprehension adds after the first
SimpleStage_rest(num_blocks) == RangeLen(num_blocks - 1)

\* a: in_chs, out_chs, num_blocks, stride, bottle_ratio, block_fn
SimpleStage(a) ==
    LET mid_chs == Max(IntMul(a.bottle_ratio, a.out_chs), 64)
        first == CallBlockFn(a.block_fn, a.in_chs, mid_chs, a.out_chs, a.stride)
        rest == [i \in 1..SimpleStage_rest(a.num_blocks) |->
                    CallBlockFn(a.block_fn, a.out_chs, mid_chs, a.out_chs, 1)]
        layers == <<first>> \o rest
    IN  IF \E i \in DOMAIN layers : layers[i].err # ""
        THEN Raised("SimpleStage", a,
                    layers[CHOOSE i \in DOMAIN layers :
                              /\ layers[i].err # ""
                              /\ \A j \in 1..(i - 1) : layers[j].err = ""].err)
        ELSE [cls |-> "SimpleStage", err |-> "", args |-> a, blocks |-> layers]

SimpleStage_forward(b, x) == SequentialForward(b.blocks, Start(x))

\* a: in_chs, out_chs, num_blocks, stride, block_fn, csp_block_ratio, x2_transition
CrossStage(a) ==
    LET first_layer == CallBlockFn(a.block_fn, a.in_chs, a.out_chs, a.out_chs, a.stride)
        block_chs == IntMul(a.csp_block_ratio, a.out_chs)
        blocks == [i \in 1..RangeLen(a.num_blocks - 1) |->
                      CallBlockFn(a.block_fn, block_chs, block_chs, block_chs, 1)]
        layers == <<first_layer>> \o blocks
        transition == conv1x1(block_chs, block_chs, 1)
    IN  IF \E i \in DOMAIN layers : layers[i].err # ""
        THEN Raised("CrossStage", a,
                    layers[CHOOSE i \in DOMAIN layers :
                              /\ layers[i].err # ""
                              /\ \A j \in 1..(i - 1) : layers[j].err = ""].err)
        ELSE IF a.x2_transition /\ EngineRejects(<<transition>>)
        THEN Raised("CrossStage", a, "EngineError")
        ELSE [cls |-> "CrossStage", err |-> "", args |-> a,
              first_layer |-> first_layer,
              block_chs |-> block_chs,
              blocks |-> blocks,
              x2_transition |-> IF a.x2_transition
                                THEN <<transition, Norm(block_chs, "identity")>>
                                ELSE <<Identity>>,
              csp_block_ratio |-> a.csp_block_ratio]

\* ratio == num/den as a comparison of numbers
RatioIs(ratio, num, den) == ratio[1] * den = num * ratio[2]

RECURSIVE Sum(_)
Sum(s) == IF s = <<>> THEN 0 ELSE Head(s) + Sum(Tail(s))

RECURSIVE ApplyLayers(_, _)
ApplyLayers(layers, sh) ==
    IF layers = <<>> THEN sh ELSE ApplyLayers(Tail(layers), ApplyLayer(Head(layers), sh))

\* The x1, x2 channel counts after the split, or <<>> when the split raises:
\* unpacking fewer parts than names is a ValueError, and with any other ratio
\* neither branch binds x1 and x2 (UnboundLocalError at the next line)
CrossStage_split(ratio, c) ==
    IF RatioIs(ratio, 1, 2)
    THEN IF Len(Chunk(c, 2)) # 2 THEN <<>> ELSE <<Chunk(c, 2)[1], Chunk(c, 2)[2]>>
    ELSE IF RatioIs(ratio, 3, 4)
    THEN IF Len(Chunk(c, 4)) # 4 THEN <<>> ELSE <<Chunk(c, 4)[1], Sum(Tail(Chunk(c, 4)))>>
    ELSE <<>>

CrossStage_forward(b, x) ==
    LET f == BlockForward(b.first_layer, x)
        parts == CrossStage_split(b.csp_block_ratio, f.out[2])
        x2in == <<f.out[1], parts[2], f.out[3], f.out[4]>>
        inner == SequentialForward(b.blocks, Start(x2in))
        x2 == ApplyLayers(b.x2_transition, inner.out)
    IN  IF f.fail # "" THEN [Start(x) EXCEPT !.out = Fail, !.fail = "first_layer"]
        ELSE IF parts = <<>>
        THEN [Start(x) EXCEPT !.out = Fail, !.fail = "split", !.ops = <<"first_layer">>]
        ELSE IF inner.fail # ""
        THEN [Start(x) EXCEPT !.out = Fail, !.fail = "blocks", !.fed = parts[2],
                              !.ops = <<"first_layer", "split">>]
        ELSE IF ~IsShape(x2)
        THEN [Start(x) EXCEPT !.out = Fail, !.fail = "x2_transition", !.fed = parts[2],
                              !.ops = <<"first_layer", "split", "blocks">>]
        ELSE [Start(x) EXCEPT !.out = <<x2[1], parts[1] + x2[2], x2[3], x2[4]>>,
                              !.fed = parts[2],
                              !.ops = <<"first_layer", "split", "blocks",
                                        "x2_transition", "cat">>]

\* module(x) for a block or a stage
Forward(b, x) ==
    CASE b.cls = "SimpleStage" -> SimpleStage_forward(b, x)
      [] b.cls = "CrossStage" -> CrossStage_forward(b, x)
      [] OTHER -> BlockForward(b, x)

----------------------------------------------------------------------------
(* DropConnect on values.  A value is a rational n/d, inf or nan; a tensor *)
(* is a sequence (batch) of sequences (the entries of one sample).         *)

RECURSIVE GCD(_, _)
GCD(a, b) == IF b = 0 THEN a ELSE GCD(b, a % b)

Fin(n, d) == [k |-> "fin", n |-> n \div GCD(n, d), d |-> d \div GCD(n, d)]
Inf == [k |-> "inf", n |-> 1, d |-> 0]
NaN == [k |-> "nan", n |-> 0, d |-> 0]

\* x / keep_prob for a value x >= 0 and keep_prob = kp / KDen >= 0
FDiv(x, kp) ==
    IF x.k # "fin" THEN x
    ELSE IF kp = 0 THEN (IF x.n = 0 THEN NaN ELSE Inf)
    ELSE Fin(x.n * KDen, x.d * kp)

\* x * b for an integer b >= 0
FMul(x, b) ==
    CASE x.k = "nan" -> NaN
      [] x.k = "inf" -> IF b = 0 THEN NaN ELSE Inf
      [] OTHER -> Fin(x.n * b, x.d)

DropConnect(kp) ==
    [cls |-> "DropConnect", err |-> "", args |-> [keep_prob |-> kp], keep_prob |-> kp]

DropConnect_forward_always(is_training, kp, x, rand) ==
    [n \in DOMAIN x |->
        [p \in DOMAIN x[n] |-> FMul(FDiv(x[n][p], kp), (kp + rand[n]) \div KDen)]]

\* rand[n] / KDen is the entry torch.rand([batch_size, 1, 1, 1]) draws for sample n
DropConnect_forward(is_training, kp, x, rand) ==
    IF ~is_training THEN x
    ELSE LET binary_tensor == [n \in DOMAIN x |-> (kp + rand[n]) \div KDen]
         IN  [n \in DOMAIN x |->
                [p \in DOMAIN x[n] |-> FMul(FDiv(x[n][p], kp), binary_tensor[n])]]

DropConnect_forward_self_inplace(is_training, kp, rand) ==
    IF is_training THEN kp + rand ELSE kp

\* self.keep_prob after DropConnect.forward.  keep_prob is a Python number:
\* `random_tensor = self.keep_prob` binds a local name to it and
\* `random_tensor += torch.rand(...)` rebinds that name to a new tensor, so
\* the attribute keeps its value in both modes.
DropConnect_forward_self(is_training, kp, rand) == kp

\* The object after module(x).  No forward method of the module assigns an
\* attribute of self; the one sub-module whose forward does more than read is
\* drop_connect, reached when the pass got as far as that statement.
Forward_self(b, is_training, ops, rand) ==
    IF b.cls = "DropConnect"
    THEN [b EXCEPT !.keep_prob = DropConnect_forward_self(is_training, @, rand)]
    ELSE IF /\ \E i \in DOMAIN ops : ops[i] = "drop_connect"
            /\ b.mods.drop_connect.op = "DropConnect"
    THEN [b EXCEPT !.keep_prob = DropConnect_forward_self(is_training, @, rand)]
    ELSE b

----------------------------------------------------------------------------
(* The inputs the calls are made with *)

\* input shapes <<N, H, W>>, to which the configured channel count is added
InputShapes == {<<1, 7, 7>>, <<2, 32, 32>>, <<2, 1, 1>>}

\* attn_type arguments given to blocks
BlockAttn == {NoneArg, se, <<"S", "E">>, eca, sse, scse, <<"x">>}

\* keep_prob arguments given to blocks: 1/2 and 1
BlockKeep == {KDen \div 2, KDen}

ResNetArgs ==
    [inplanes : {1, 16, 64}, planes : {4, 16}, stride : {1, 2}, downsample : BOOLEAN,
     groups : {1, 2}, base_width : {64}, attn_type : BlockAttn, dilation : {1},
     antialias : BOOLEAN, keep_prob : BlockKeep]

InvertedResidualArgs ==
    [in_channels : {8, 16}, out_channels : {8, 16}, dw_kernel_size : {3},
     stride : {1, 2}, dilation : {1}, attn_type : BlockAttn,
     expand_ratio : {<<1, 1>>, <<4, 1>>}, keep_prob : BlockKeep, noskip : BOOLEAN]

DarkArgs ==
    [in_channels : {32, 64}, out_channels : {32, 64}, bottle_ratio : {<<1, 2>>, <<1, 1>>},
     attn_type : BlockAttn, keep_prob : BlockKeep]

CSPDarkArgs ==
    [in_channels : {64}, out_channels : {64}, attn_type : {NoneArg, se, <<"x">>},
     keep_prob : BlockKeep]

SimpleArgs ==
    [in_chs : {4, 8, 64}, mid_chs : {4, 8}, out_chs : {4, 8, 64}, stride : {1, 2},
     groups : {1, 2}, groups_width : {0, 4}]

BlockFns == {"DarkBasicBlock", "SimpleBottleneck", "SimplePreActBottleneck"}

SimpleStageArgs ==
    [in_chs : {4}, out_chs : {4, 8}, num_blocks : 0..MaxBlocks, stride : {1, 2},
     bottle_ratio : {<<1, 2>>}, block_fn : BlockFns]

\* every layer of the stage has at least one channel
CrossStageArgs ==
    {a \in [in_chs : {4}, out_chs : 1..MaxCh, num_blocks : 0..MaxBlocks, stride : {1, 2},
            block_fn : BlockFns, csp_block_ratio : {<<1, 4>>, <<1, 2>>, <<3, 4>>},
            x2_transition : BOOLEAN] :
        IntMul(a.csp_block_ratio, a.out_chs) >= 1}

\* DropConnect value inputs: one or two samples of two entries each
Vals == {Fin(0, 1), Fin(1, 1)}
Samples == [1..2 -> Vals]
Tensors == UNION {[1..n -> Samples] : n \in {1, 2}}

\* the channel count a block or stage is configured to read
InCh(b) ==
    CASE b.cls \in {"BasicBlock", "Bottleneck", "TBasicBlock", "TBottleneck"} -> b.args.inplanes
      [] b.cls \in {"InvertedResidual", "DarkBasicBlock"} -> b.args.in_channels
      [] OTHER -> b.args.in_chs

\* the channel count it is configured to produce
OutCh(b) ==
    CASE b.cls \in {"BasicBlock", "TBasicBlock"} -> b.args.planes
      [] b.cls \in {"Bottleneck", "TBottleneck"} -> b.args.planes * 4
      [] b.cls \in {"InvertedResidual", "DarkBasicBlock"} -> b.args.out_channels
      [] OTHER -> b.args.out_chs

StrideOf(b) == IF b.cls = "DarkBasicBlock" THEN 1 ELSE b.args.stride

----------------------------------------------------------------------------
(* The state machine: an object is constructed, switched between training  *)
(* and inference mode and called, then dropped.                            *)

NoBlock == [cls |-> "none", err |-> "", args |-> <<>>]
NoCall == [op |-> "none"]

Init ==
    /\ blk = NoBlock
    /\ training = TRUE
    /\ res = NoCall

\* nothing has been constructed or called yet
Fresh == blk.cls = "none" /\ res.op = "none"

\* nn.Module.__init__ sets training = True
Built(b) ==
    /\ blk' = b
    /\ training' = TRUE
    /\ res' = [op |-> "init"]

GetAttnCall ==
    /\ Fresh
    /\ \E name \in Strings(MaxNameLen) \cup {NoneArg} :
          res' = [op |-> "get_attn", arg |-> name, value |-> get_attn(name)]
    /\ UNCHANGED <<blk, training>>

NewInvertedResidual == Fresh /\ \E a \in InvertedResidualArgs : Built(InvertedResidual(a))
NewBasicBlock == Fresh /\ \E a \in ResNetArgs : Built(BasicBlock(a))
NewBottleneck == Fresh /\ \E a \in ResNetArgs : Built(Bottleneck(a))
NewTBasicBlock == Fresh /\ \E a \in ResNetArgs : Built(TBasicBlock(a))
NewTBottleneck == Fresh /\ \E a \in ResNetArgs : Built(TBottleneck(a))
NewDarkBasicBlock == Fresh /\ \E a \in DarkArgs : Built(DarkBasicBlock(a))
NewCSPDarkBasicBlock == Fresh /\ \E a \in CSPDarkArgs : Built(CSPDarkBasicBlock(a))
NewSimpleBottleneck == Fresh /\ \E a \in SimpleArgs : Built(SimpleBottleneck(a))
NewSimplePreActBottleneck == Fresh /\ \E a \in SimpleArgs : Built(SimplePreActBottleneck(a))
NewSimpleStage == Fresh /\ \E a \in SimpleStageArgs : Built(SimpleStage(a))
NewCrossStage == Fresh /\ \E a \in CrossStageArgs : Built(CrossStage(a))
NewDropConnect == Fresh /\ \E kp \in 0..KDen : Built(DropConnect(kp))

Constructed == blk.cls # "none" /\ blk.err = ""

\* module.train()
Train ==
    /\ Constructed
    /\ training' = TRUE
    /\ UNCHANGED <<blk, res>>

\* module.eval()
Eval ==
    /\ Constructed
    /\ training' = FALSE
    /\ UNCHANGED <<blk, res>>

\* the mode of the forward call before this one, if there was one
PrevMode == IF res.op # "forward" THEN "none" ELSE IF res.training THEN "train" ELSE "eval"

ShapeOf(t) == <<Len(t), Len(t[1])>>

\* module(x) on a block or stage, x of the configured channel count
CallForward ==
    /\ Constructed
    /\ blk.cls # "DropConnect"
    /\ \E i \in InputShapes :
          \E r \in {Forward(blk, <<i[1], InCh(blk), i[2], i[3]>>)} :
             \E rand \in 0..(KDen - 1) :
                /\ res' = [op |-> "forward", x |-> <<i[1], InCh(blk), i[2], i[3]>>,
                           out |-> r.out, ops |-> r.ops, fail |-> r.fail, fed |-> r.fed,
                           training |-> training]
                /\ blk' = Forward_self(blk, training, r.ops, rand)
    /\ UNCHANGED training

\* drop_connect(x) on values
CallDropConnect ==
    /\ Constructed
    /\ blk.cls = "DropConnect"
    /\ \E x \in Tensors :
          \E rand \in [DOMAIN x -> 0..(KDen - 1)] :
             /\ res' = [op |-> "forward", x |-> x, rand |-> rand,
                        out |-> DropConnect_forward(training, blk.keep_prob, x, rand),
                        training |-> training, prev |-> PrevMode]
             /\ blk' = Forward_self(blk, training, <<>>, rand[1])
    /\ UNCHANGED training

\* the object and the result go out of scope
Drop ==
    /\ blk.cls # "none" \/ res.op # "none"
    /\ blk' = NoBlock
    /\ training' = TRUE
    /\ res' = NoCall

Next ==
    \/ GetAttnCall
    \/ NewCSPDarkBasicBlock
    \/ NewCrossStage
    \/ NewSimpleStage
    \/ NewTBottleneck
    \/ NewInvertedResidual
    \/ NewDarkBasicBlock
    \/ NewBottleneck
    \/ NewBasicBlock
    \/ NewTBasicBlock
    \/ NewSimpleBottleneck
    \/ NewSimplePreActBottleneck
    \/ NewDropConnect
    \/ Train
    \/ Eval
    \/ CallForward
    \/ CallDropConnect
    \/ Drop

Spec == Init /\ [][Next]_vars

----------------------------------------------------------------------------
(* Properties *)

IsForward == res.op = "forward" /\ blk.cls # "DropConnect"

\* the forward pass ran the residual addition
Added == \E i \in DOMAIN res.ops : res.ops[i] = "add"

\* the residual operand was downsample(x) rather than x
Downsampled == \E i \in DOMAIN res.ops : res.ops[i] = "downsample"

ResNetClasses == {"BasicBlock", "Bottleneck", "TBasicBlock", "TBottleneck"}
SimpleClasses == {"SimpleBottleneck", "SimplePreActBottleneck"}
BlockClasses ==
    ResNetClasses \cup SimpleClasses \cup {"InvertedResidual", "DarkBasicBlock"}

ShapeMatch == InCh(blk) = OutCh(blk) /\ StrideOf(blk) = 1

UpperChar(c) ==
    CASE c = "s" -> "S"
      [] c = "e" -> "E"
      [] c = "c" -> "C"
      [] c = "a" -> "A"

\* a lower-case name written in any letter case
CaseVariants(name) ==
    {v \in [DOMAIN name -> Alphabet] :
        \A i \in DOMAIN name : v[i] \in {name[i], UpperChar(name[i])}}

\* C2: get_attn maps each of the names "se", "eca", "sse", "scse", in any
\* letter case, to SEModule, ECAModule, SSEModule, SCSEModule; maps None to
\* the identity, whose output is its input; and raises KeyError for every
\* other string.
C2_GetAttnLookup ==
    res.op = "get_attn" =>
        /\ res.arg = NoneArg =>
              /\ res.value = "Identity"
              /\ \A i \in InputShapes :
                    ApplyLayer(MkAttn(res.value, 8, 2), <<i[1], 8, i[2], i[3]>>)
                        = <<i[1], 8, i[2], i[3]>>
        /\ res.arg \in CaseVariants(se) => res.value = "SEModule"
        /\ res.arg \in CaseVariants(eca) => res.value = "ECAModule"
        /\ res.arg \in CaseVariants(sse) => res.value = "SSEModule"
        /\ res.arg \in CaseVariants(scse) => res.value = "SCSEModule"
        /\ res.arg \notin ({NoneArg} \cup CaseVariants(se) \cup CaseVariants(eca)
                            \cup CaseVariants(sse) \cup CaseVariants(scse))
              => res.value = "KeyError"

C2_Witness ==
    res.op = "get_attn" /\ res.arg = <<"S", "c", "S", "e">> /\ res.value = "SCSEModule"

IsDropConnectCall == res.op = "forward" /\ blk.cls = "DropConnect"

\* C3: whatever the keep probability, the mode switches and the forward calls
\* made before, a DropConnect forward call made in inference mode returns its
\* input unchanged.
C3_InferenceIdentity ==
    (IsDropConnectCall /\ ~res.training) => res.out = res.x

\* an inference call that follows a training call on the same module
C3_Witness ==
    /\ IsDropConnectCall /\ ~res.training /\ res.prev = "train"
    /\ blk.keep_prob < KDen
    /\ res.x[1][1] # Fin(0, 1)
    /\ res.out = res.x

\* C4: in training mode a DropConnect forward call keeps or drops each batch
\* element as a whole: a kept element's output is its input divided by
\* keep_prob, a dropped element's output is all zeros, nothing else is
\* possible, and the output has the shape of the input.
C4_TrainingKeepOrDrop ==
    (IsDropConnectCall /\ res.training) =>
        /\ ShapeOf(res.out) = ShapeOf(res.x)
        /\ \A n \in DOMAIN res.x :
              \/ \A p \in DOMAIN res.x[n] :
                    res.out[n][p] = FDiv(res.x[n][p], blk.keep_prob)
              \/ \A p \in DOMAIN res.x[n] : res.out[n][p] = Fin(0, 1)

\* C5: once a block or stage has been constructed, no forward call on an
\* input of the configured channel count fails.
C5_NoForwardFailure == IsForward => res.fail = ""

\* the attn_type argument, where the class takes one, is None or a known name
AttnRecognized ==
    "attn_type" \in DOMAIN blk.args => get_attn(blk.args.attn_type) # "KeyError"

\* C6: constructing any block or stage class with a recognized attention name
\* or None, and with channel and group counts the tensor engine accepts,
\* raises no error.
C6_OnlyKeyError ==
    (blk.cls # "none" /\ AttnRecognized /\ blk.err # "EngineError") => blk.err = ""

\* the spatial size a stride implies
Strided(h, s) == (h + s - 1) \div s

\* C7: for every block variant and input <<N, C_in, H, W>> the output is
\* <<N, configured output channels, H', W'>> with H', W' implied by the
\* stride, whatever the attention choice.
C7_OutputShape ==
    (IsForward /\ blk.cls \in BlockClasses) =>
        res.out = <<res.x[1], OutCh(blk), Strided(res.x[3], StrideOf(blk)),
                    Strided(res.x[4], StrideOf(blk))>>

C9_CrossStageSplit ==
    (IsForward /\ blk.cls = "CrossStage"
        /\ (RatioIs(blk.csp_block_ratio, 1, 2) \/ RatioIs(blk.csp_block_ratio, 3, 4)))
        => /\ res.fail = ""
           /\ res.fed = blk.block_chs
           /\ res.out[2] = blk.args.out_chs

\* block i of a stage maps cin to cout channels with stride s
BlockMaps(b, cin, cout, s) ==
    /\ b.args.in_chs = cin /\ b.args.out_chs = cout /\ b.args.stride = s
    /\ b.mods.conv1.cin = cin /\ b.mods.conv2.s = s /\ b.mods.conv3.cout = cout

StageLayout(n) ==
    /\ Len(blk.blocks) = n
    /\ BlockMaps(blk.blocks[1], blk.args.in_chs, blk.args.out_chs, blk.args.stride)
    /\ \A i \in 2..Len(blk.blocks) :
          BlockMaps(blk.blocks[i], blk.args.out_chs, blk.args.out_chs, 1)

IsSimpleStage == blk.cls = "SimpleStage" /\ blk.err = ""

Construct(cls, a) ==
    CASE cls = "InvertedResidual" -> InvertedResidual(a)
      [] cls = "BasicBlock" -> BasicBlock(a)
      [] cls = "Bottleneck" -> Bottleneck(a)
      [] cls = "TBasicBlock" -> TBasicBlock(a)
      [] cls = "TBottleneck" -> TBottleneck(a)
      [] cls = "DarkBasicBlock" -> DarkBasicBlock(a)
      [] cls = "SimpleBottleneck" -> SimpleBottleneck(a)
      [] cls = "SimplePreActBottleneck" -> SimplePreActBottleneck(a)
      [] cls = "SimpleStage" -> SimpleStage(a)
      [] cls = "CrossStage" -> CrossStage(a)
      [] cls = "DropConnect" -> DropConnect(a.keep_prob)

\* C11: after any sequence of forward calls and train()/eval() switches, a
\* constructed object is the object its constructor computed: has_residual,
\* the antialias flag, the choice of DropConnect or identity, the sub-modules
\* in their order, and keep_prob all have their construction-time values.
C11_ConfigUnchanged ==
    Constructed => blk = Construct(blk.cls, blk.args)

\* a training-mode forward pass that ran a real DropConnect inside a block
C11_Witness ==
    /\ IsForward /\ blk.cls = "InvertedResidual"
    /\ res.training /\ res.fail = ""
    /\ blk.has_residual
    /\ blk.mods.drop_connect.op = "DropConnect"
    /\ \E i \in DOMAIN res.ops : res.ops[i] = "drop_connect"
    /\ blk.keep_prob = blk.args.keep_prob

\* the block variants that carry attention
AttnClasses ==
    {"BasicBlock", "Bottleneck", "TBottleneck", "InvertedResidual", "DarkBasicBlock"}

\* the statements of the block's forward method, in program order
Program == [i \in DOMAIN Steps(blk) |-> Steps(blk)[i].m]

\* the position of a statement in the forward method, 0 if it has none
Pos(prog, name) ==
    IF \E i \in DOMAIN prog : prog[i] = name
    THEN CHOOSE i \in DOMAIN prog : prog[i] = name
    ELSE 0

IsPrefix(p, q) == Len(p) <= Len(q) /\ \A i \in DOMAIN p : p[i] = q[i]

\* the operations that ran are the forward method's statements, in order, up
\* to the one that raised (all of them when none did)
RanInProgramOrder(prog) ==
    /\ IsPrefix(res.ops, prog)
    /\ res.fail = "" => res.ops = prog

AttnStep ==
    CASE blk.cls = "InvertedResidual" -> "se"
      [] blk.cls = "DarkBasicBlock" -> "attention"
      [] OTHER -> "se_module"

\* the last (projection) convolution and the normalization of the block's end
LastConv ==
    CASE blk.cls = "InvertedResidual" -> "conv_pw1"
      [] blk.cls \in {"BasicBlock", "TBasicBlock", "DarkBasicBlock"} -> "conv2"
      [] OTHER -> "conv3"

LastNorm ==
    CASE blk.cls \in {"BasicBlock", "TBasicBlock", "DarkBasicBlock"} -> "bn2"
      [] OTHER -> "bn3"

\* stochastic depth reads the branch and is the statement just before the add
DropConnectBeforeAdd(prog) ==
    Pos(prog, "add") # 0 =>
        /\ Pos(prog, "drop_connect") + 1 = Pos(prog, "add")
        /\ Steps(blk)[Pos(prog, "drop_connect")].src = "out"

\* C12 as stated: in every block variant that carries attention the order is
\* main convolutions, normalization, attention, projection convolution,
\* normalization, stochastic depth, residual addition, final activation:
\* attention comes before the last convolution and its normalization, and
\* stochastic depth immediately before the residual addition.
C12_AttentionBeforeProjection ==
    (IsForward /\ blk.cls \in AttnClasses) =>
        \A prog \in {Program} :
           /\ RanInProgramOrder(prog)
           /\ Pos(prog, AttnStep) < Pos(prog, LastConv)
           /\ Pos(prog, LastConv) < Pos(prog, LastNorm)
           /\ Pos(prog, "add") # 0 => Pos(prog, LastNorm) < Pos(prog, "drop_connect")
           /\ DropConnectBeforeAdd(prog)
           /\ Pos(prog, "final_act") # 0 => Pos(prog, "add") < Pos(prog, "final_act")

\* C12 amended: TBottleneck and InvertedResidual run attention, then the
\* last convolution, then its normalization; BasicBlock, TBasicBlock and
\* Bottleneck run the last convolution, its normalization, then attention;
\* DarkBasicBlock runs normalization, the last convolution, then attention.
\* In every one of them stochastic depth reads the branch and is the
\* statement just before the residual addition, which InvertedResidual runs
\* only when has_residual; the ResNet-style blocks end with the final
\* activation, InvertedResidual and DarkBasicBlock have none.
C12_OrderPerVariant ==
    (IsForward /\ blk.cls \in AttnClasses \cup {"TBasicBlock"}) =>
        \A prog \in {Program} :
           /\ RanInProgramOrder(prog)
           /\ blk.cls \in {"TBottleneck", "InvertedResidual"} =>
                 /\ Pos(prog, AttnStep) + 1 = Pos(prog, LastConv)
                 /\ Pos(prog, LastConv) + 1 = Pos(prog, LastNorm)
                 /\ Pos(prog, "add") # 0 => Pos(prog, LastNorm) + 1 = Pos(prog, "drop_connect")
           /\ blk.cls \in {"BasicBlock", "TBasicBlock", "Bottleneck"} =>
                 /\ Pos(prog, LastConv) + 1 = Pos(prog, LastNorm)
                 /\ Pos(prog, LastNorm) + 1 = Pos(prog, AttnStep)
                 /\ Pos(prog, AttnStep) + 1 = Pos(prog, "drop_connect")
           /\ blk.cls = "DarkBasicBlock" =>
                 /\ Pos(prog, LastNorm) + 1 = Pos(prog, LastConv)
                 /\ Pos(prog, LastConv) + 1 = Pos(prog, AttnStep)
                 /\ Pos(prog, AttnStep) + 1 = Pos(prog, "drop_connect")
           /\ DropConnectBeforeAdd(prog)
           /\ blk.cls = "InvertedResidual" => (Pos(prog, "add") # 0 <=> blk.has_residual)
           /\ blk.cls # "InvertedResidual" => Pos(prog, "add") # 0
           /\ blk.cls \in ResNetClasses =>
                 Pos(prog, "final_act") = Pos(prog, "add") + 1 /\ Pos(prog, "final_act") = Len(prog)
           /\ blk.cls \notin ResNetClasses =>
                 Pos(prog, "final_act") = 0 /\ (Pos(prog, "add") # 0 => Pos(prog, "add") = Len(prog))

\* a TBottleneck with squeeze-and-excitation and a real DropConnect whose
\* training-mode pass ran to the end
C12_Witness ==
    /\ IsForward /\ blk.cls = "TBottleneck"
    /\ blk.mods.se_module.op = "SEModule"
    /\ blk.mods.drop_connect.op = "DropConnect"
    /\ res.training /\ res.fail = ""
    /\ \E prog \in {Program} :
          res.ops = prog /\ Pos(prog, "se_module") < Pos(prog, "conv3")

============================================================================
